---- MODULE Spec2Model ----
(***************************************************************************)
(* Model of the weather CLI (src/src/main.rs): the read / fetch / render / *)
(* ask loop of UserInteraction::execute_app, the request and decoding of   *)
(* WeatherApp::obtain_weather, and the rendering functions.                *)
(*                                                                         *)
(* Text read from the terminal is a sequence of one-character strings, so  *)
(* that trim and to_lowercase are computed character by character.         *)
(* Floating point values are carried as integer hundredths: h stands for   *)
(* the f64 nearest to h / 100.                                             *)
(***************************************************************************)
EXTENDS Integers, Sequences, FiniteSets, TLC

VARIABLES
    pc,             \* position of the single thread in main / execute_app
    io,             \* every I/O operation performed so far, in order
    stdin,          \* "open", or "eof" once a read has met the end of input
    city,           \* acquire_user_input: trimmed city
    city_line,      \* acquire_user_input: the raw line read into `city`
    country,        \* acquire_user_input: trimmed country code
    country_line,   \* acquire_user_input: the raw line read into `country`
    api_endpoint,   \* obtain_weather: the URL requested
    api_response,   \* obtain_weather: what the provider / transport gave back
    weather_result, \* the Result<WeatherData, reqwest::Error> matched on
    colored_output, \* render_weather_info: the block handed to println!
    user_choice     \* execute_app: the raw continuation answer

vars == <<pc, io, stdin, city, city_line, country, country_line, api_endpoint,
          api_response, weather_result, colored_output, user_choice>>

(***************************************************************************)
(* Bounds of the model.                                                    *)
(***************************************************************************)
MaxIter == 2        \* loop iterations explored
MaxAnswerLen == 3   \* letters in a generated continuation answer
Window == 30        \* hundredths explored on each side of a threshold
MaxTemp == 3950     \* largest magnitude of a temperature, in hundredths

None == [none |-> TRUE]

(***************************************************************************)
(* Strings as character sequences: str::trim and str::to_lowercase.        *)
(***************************************************************************)
WhiteSpace == {" ", "\t", "\n", "\r"}

RECURSIVE trim_start(_)
trim_start(s) ==
    IF s = <<>> THEN <<>>
    ELSE IF Head(s) \in WhiteSpace THEN trim_start(Tail(s)) ELSE s

RECURSIVE trim_end(_)
trim_end(s) ==
    IF s = <<>> THEN <<>>
    ELSE IF s[Len(s)] \in WhiteSpace THEN trim_end(SubSeq(s, 1, Len(s) - 1)) ELSE s

trim(s) == trim_end(trim_start(s))

UpperCase ==
    << "A", "B", "C", "D", "E", "F", "G", "H", "I", "J", "K", "L", "M",
       "N", "O", "P", "Q", "R", "S", "T", "U", "V", "W", "X", "Y", "Z" >>

LowerCase ==
    << "a", "b", "c", "d", "e", "f", "g", "h", "i", "j", "k", "l", "m",
       "n", "o", "p", "q", "r", "s", "t", "u", "v", "w", "x", "y", "z" >>

UpperCaseLetters == { UpperCase[i] : i \in 1..Len(UpperCase) }

LowerOf ==
    [c \in UpperCaseLetters |-> LowerCase[CHOOSE i \in 1..Len(UpperCase) : UpperCase[i] = c]]

lower_char(c) == IF c \in UpperCaseLetters THEN LowerOf[c] ELSE c

to_lowercase(s) == [i \in 1..Len(s) |-> lower_char(s[i])]

Yes == <<"y", "e", "s">>

(***************************************************************************)
(* Terminal input.  A read_line call gives Ok with the line including its  *)
(* terminator, Ok with what is left when the input ends (nothing at all    *)
(* once the end has been met), or Err.                                     *)
(***************************************************************************)
RECURSIVE SeqsUpTo(_, _)
SeqsUpTo(S, n) ==
    IF n = 0 THEN {<<>>}
    ELSE LET shorter == SeqsUpTo(S, n - 1)
         IN  shorter \cup {Append(s, c) : s \in shorter, c \in S}

Newline == <<"\n">>

CityTexts ==
    { <<>>, <<"R", "o", "m", "e">>, <<" ", "R", "o", "m", "e", " ">>,
      <<"R", "i", "o", "\r">> }

CountryTexts == { <<>>, <<"I", "T">>, <<"\t", "I", "T">> }

AnswerChars == {"y", "e", "s", "Y", "E", "S"}
Pads == { <<>>, <<" ">> }
OtherAnswers ==
    { <<"n", "o">>, <<"N", "O">>, <<"n">>, <<"y", "e", " ", "s">>,
      <<"y", "e", "s", "\r">>, <<"y", "e", "s", "!">> }

AnswerTexts ==
    { l \o a \o t : l \in Pads, t \in Pads, a \in SeqsUpTo(AnswerChars, MaxAnswerLen) }
        \cup OtherAnswers

\* The outcomes of one io::stdin().read_line(&mut buf) on the texts `texts`.
read_line(texts) ==
    IF stdin = "eof"
    THEN { [res |-> "Ok", buf |-> <<>>, stdin |-> "eof"] }
    ELSE { [res |-> "Ok", buf |-> t \o Newline, stdin |-> "open"] : t \in texts }
           \cup { [res |-> "Ok", buf |-> t, stdin |-> "eof"] : t \in texts }
           \cup { [res |-> "Err"] }

(***************************************************************************)
(* The provider.  A JSON value is tagged with its type; an object is a     *)
(* record, an array a sequence.  Numbers are hundredths.                   *)
(***************************************************************************)
Num(n) == [t |-> "num", v |-> n]
Str(s) == [t |-> "str", v |-> s]
Obj(r) == [t |-> "obj", v |-> r]
Arr(s) == [t |-> "arr", v |-> s]
NotJson == [t |-> "invalid", v |-> <<>>]

WeatherJson(descs, temp, humidity, pressure, speed, name) ==
    Obj([weather |-> Arr([i \in 1..Len(descs) |-> Obj([description |-> Str(descs[i])])]),
         main |-> Obj([temp |-> Num(temp), humidity |-> Num(humidity),
                       pressure |-> Num(pressure)]),
         wind |-> Obj([speed |-> Num(speed)]),
         name |-> Str(name)])

KnownDescriptions ==
    { "clear sky", "few clouds", "scattered clouds", "broken clouds",
      "overcast clouds", "mist", "haze", "smoke", "dust", "fog",
      "rain", "thunderstorm", "snow" }

Descriptions ==
    KnownDescriptions \cup
        { "Clear Sky", "CLEAR SKY", "clear sky ", " clear sky", "clear  sky", "clearsky",
          "Rain", "light rain", "rainy", "Mist", "snow.", "few clouds!", "clouds",
          "tornado", "" }

Thresholds == {0, 1000, 2000, 3000}

Temps ==
    UNION { (th - Window)..(th + Window) : th \in Thresholds }
        \cup { t \in (0 - MaxTemp)..MaxTemp : t % 5 = 0 }

Metrics == { 0, 4, 5, 6, 25, 75, 95, 996, 1504, 1505, 8100, 9999, 10000, 101325, 99996 }

Names == { "Rome", "Rio de Janeiro", "" }

GoodBodies ==
    { WeatherJson(<<d>>, 1504, 8100, 101325, 356, "Rome") : d \in Descriptions }
      \cup { WeatherJson(<<"clear sky">>, t, 8100, 101325, 356, "Rome") : t \in Temps }
      \cup { WeatherJson(<<"mist">>, 1504, m, 101300, 356, "Rome") : m \in Metrics }
      \cup { WeatherJson(<<"rain">>, 1504, 8100, m, 356, "Rome") : m \in Metrics }
      \cup { WeatherJson(<<"snow">>, -4, 8100, 101300, m, n) : m \in Metrics, n \in Names }
      \cup { WeatherJson(<<"rain", "mist">>, 1504, 8100, 101325, 356, "Rome"),
             WeatherJson(<<"Haze", "haze">>, 3000, 8100, 101325, 356, "Rome") }

EmptyListBody == WeatherJson(<<>>, 1504, 8100, 101325, 356, "Rome")

\* A well-formed record with fields the program does not declare.
ExtraFieldsBody ==
    Obj([weather |-> Arr(<<Obj([description |-> Str("fog"), id |-> Num(74100)])>>),
         main |-> Obj([temp |-> Num(-25), humidity |-> Num(9300),
                       pressure |-> Num(101800), feels_like |-> Num(-310)]),
         wind |-> Obj([speed |-> Num(150), deg |-> Num(9000)]),
         name |-> Str("Oslo"),
         cod |-> Num(20000)])

ProviderErrorBody == Obj([cod |-> Str("404"), message |-> Str("city not found")])

BadBodies ==
    { NotJson,
      ProviderErrorBody,
      Obj([cod |-> Num(40100), message |-> Str("Invalid API key")]),
      \* no wind
      Obj([weather |-> Arr(<<Obj([description |-> Str("rain")])>>),
           main |-> Obj([temp |-> Num(1504), humidity |-> Num(8100),
                         pressure |-> Num(101325)]),
           name |-> Str("Rome")]),
      \* temp is a string
      Obj([weather |-> Arr(<<Obj([description |-> Str("rain")])>>),
           main |-> Obj([temp |-> Str("15.04"), humidity |-> Num(8100),
                         pressure |-> Num(101325)]),
           wind |-> Obj([speed |-> Num(356)]),
           name |-> Str("Rome")]),
      \* weather is an object, not a list
      Obj([weather |-> Obj([description |-> Str("rain")]),
           main |-> Obj([temp |-> Num(1504), humidity |-> Num(8100),
                         pressure |-> Num(101325)]),
           wind |-> Obj([speed |-> Num(356)]),
           name |-> Str("Rome")]),
      \* a weather entry without description
      Obj([weather |-> Arr(<<Obj([main |-> Str("Rain")])>>),
           main |-> Obj([temp |-> Num(1504), humidity |-> Num(8100),
                         pressure |-> Num(101325)]),
           wind |-> Obj([speed |-> Num(356)]),
           name |-> Str("Rome")]) }

SuccessStatuses == {200, 203}
FailureStatuses == {301, 401, 404, 500}

Http(status, body) == [kind |-> "response", status |-> status, body |-> body]
TransportFailure == [kind |-> "failure", status |-> 0, body |-> NotJson]

\* What one GET can come back with.
Responses ==
    { TransportFailure }
      \cup { Http(200, b) : b \in GoodBodies }
      \cup { Http(s, b) : s \in SuccessStatuses \cup FailureStatuses,
                          b \in BadBodies \cup {EmptyListBody, ExtraFieldsBody} }
      \cup { Http(s, WeatherJson(<<"clear sky">>, 1504, 8100, 101325, 356, "Rome")) :
                 s \in FailureStatuses }

(***************************************************************************)
(* serde: #[derive(Deserialize)] on WeatherData and its parts.  A field    *)
(* must be present with the declared type; other fields are ignored.       *)
(***************************************************************************)
HasField(v, f, type) == v.t = "obj" /\ f \in DOMAIN v.v /\ v.v[f].t = type

IsWeatherDetails(v) == HasField(v, "description", "str")

IsWeatherMain(v) ==
    /\ HasField(v, "temp", "num")
    /\ HasField(v, "humidity", "num")
    /\ HasField(v, "pressure", "num")

IsWindInfo(v) == HasField(v, "speed", "num")

IsWeatherData(v) ==
    /\ HasField(v, "weather", "arr")
    /\ \A i \in 1..Len(v.v.weather.v) : IsWeatherDetails(v.v.weather.v[i])
    /\ HasField(v, "main", "obj")
    /\ IsWeatherMain(v.v.main)
    /\ HasField(v, "wind", "obj")
    /\ IsWindInfo(v.v.wind)
    /\ HasField(v, "name", "str")

WeatherData(v) ==
    [weather |-> [i \in 1..Len(v.v.weather.v) |->
                      [description |-> v.v.weather.v[i].v.description.v]],
     main |-> [temp |-> v.v.main.v.temp.v,
               humidity |-> v.v.main.v.humidity.v,
               pressure |-> v.v.main.v.pressure.v],
     wind |-> [speed |-> v.v.wind.v.speed.v],
     name |-> v.v.name.v]

Ok(data) == [ok |-> TRUE, data |-> data, err |-> "none"]
Err(e) == [ok |-> FALSE, data |-> None, err |-> e]

\* api_response.json::<WeatherData>()
json(resp) ==
    IF IsWeatherData(resp.body) THEN Ok(WeatherData(resp.body)) ELSE Err("decode")

\* get(&api_endpoint)? followed by .json()? : the status is not looked at.
obtain_weather_result(resp) ==
    IF resp.kind = "failure" THEN Err("request") ELSE json(resp)

api_token == <<>>

format_api_endpoint(c, k) ==
    <<"http://api.openweathermap.org/data/2.5/weather?q=">> \o c \o <<",">> \o k
        \o <<"&units=metric&appid=">> \o api_token

(***************************************************************************)
(* format!("{:.1}", x): the decimal expansion of the f64, rounded to one   *)
(* fractional digit, ties to even.  For h hundredths the f64 is exact when *)
(* h / 100 is a multiple of 1/4; otherwise a value that looks like a tie   *)
(* (last digit 5) lies just above or just below it: TiesAbove lists the    *)
(* magnitudes up to 3995 whose f64 lies above.                             *)
(***************************************************************************)
TiesAbove ==
    { 5, 45, 55, 65, 105, 135, 155, 185, 235, 245, 285, 295,
      335, 345, 385, 395, 415, 445, 465, 495, 515, 545, 565, 595,
      615, 645, 665, 695, 715, 745, 765, 795, 805, 815, 855, 865,
      905, 915, 955, 965, 1005, 1015, 1055, 1065, 1105, 1115, 1155, 1165,
      1205, 1215, 1255, 1265, 1305, 1315, 1355, 1365, 1405, 1415, 1455, 1465,
      1505, 1515, 1555, 1565, 1605, 1635, 1655, 1685, 1705, 1735, 1755, 1785,
      1805, 1835, 1855, 1885, 1905, 1935, 1955, 1985, 2005, 2035, 2055, 2085,
      2105, 2135, 2155, 2185, 2205, 2235, 2255, 2285, 2305, 2335, 2355, 2385,
      2405, 2435, 2455, 2485, 2505, 2535, 2555, 2585, 2605, 2635, 2655, 2685,
      2705, 2735, 2755, 2785, 2805, 2835, 2855, 2885, 2905, 2935, 2955, 2985,
      3005, 3035, 3055, 3085, 3105, 3135, 3155, 3185, 3235, 3245, 3285, 3295,
      3335, 3345, 3385, 3395, 3435, 3445, 3485, 3495, 3535, 3545, 3585, 3595,
      3635, 3645, 3685, 3695, 3735, 3745, 3785, 3795, 3835, 3845, 3885, 3895,
      3935, 3945, 3985, 3995 }

DigitChars == <<"0", "1", "2", "3", "4", "5", "6", "7", "8", "9">>

RECURSIVE Digits(_)
Digits(n) ==
    IF n < 10 THEN <<DigitChars[n + 1]>>
    ELSE Digits(n \div 10) \o <<DigitChars[(n % 10) + 1]>>

Magnitude(h) == IF h < 0 THEN 0 - h ELSE h

RoundsUp(m) ==
    LET r == m % 10
        q == m \div 10
    IN  \/ r > 5
        \/ r = 5 /\ m % 100 \in {25, 75} /\ q % 2 = 1
        \/ r = 5 /\ m % 100 \notin {25, 75} /\ m \in TiesAbove

Tenths(m) == (m \div 10) + (IF RoundsUp(m) THEN 1 ELSE 0)

\* Variant: the digits after the first fractional digit are cut off.
format_1_truncating(h) ==
    LET tenths == Magnitude(h) \div 10
    IN  (IF h < 0 THEN <<"-">> ELSE <<>>)
            \o Digits(tenths \div 10) \o <<".">> \o Digits(tenths % 10)

format_1(h) ==
    LET tenths == Tenths(Magnitude(h))
    IN  (IF h < 0 THEN <<"-">> ELSE <<>>)
            \o Digits(tenths \div 10) \o <<".">> \o Digits(tenths % 10)

(***************************************************************************)
(* WeatherApp::emoji_for_temperature and colorize_weather_output.          *)
(***************************************************************************)
\* Variant: the thresholds are compared with <=.
emoji_for_temperature_inclusive(temp) ==
    IF temp <= 0 THEN "snowflake"
    ELSE IF temp <= 1000 THEN "cloud"
    ELSE IF temp <= 2000 THEN "sun_behind_cloud"
    ELSE IF temp <= 3000 THEN "sun_behind_small_cloud"
    ELSE "fire"

emoji_for_temperature(temp) ==
    IF temp < 0 THEN "snowflake"
    ELSE IF temp < 1000 THEN "cloud"
    ELSE IF temp < 2000 THEN "sun_behind_cloud"
    ELSE IF temp < 3000 THEN "sun_behind_small_cloud"
    ELSE "fire"

Styled(text, style) == [text |-> text, style |-> style]

\* Variant: "clear sky" is matched whatever its case.
colorize_weather_output_any_case(description, weather_text) ==
    CASE description \in {"clear sky", "Clear Sky", "CLEAR SKY"} ->
            Styled(weather_text, "bright_yellow")
      [] description \in {"few clouds", "scattered clouds", "broken clouds"} ->
            Styled(weather_text, "bright_blue")
      [] description \in {"overcast clouds", "mist", "haze", "smoke", "dust", "fog"} ->
            Styled(weather_text, "dimmed")
      [] description \in {"rain", "thunderstorm", "snow"} ->
            Styled(weather_text, "bright_cyan")
      [] OTHER -> Styled(weather_text, "normal")

colorize_weather_output(description, weather_text) ==
    CASE description = "clear sky" -> Styled(weather_text, "bright_yellow")
      [] description \in {"few clouds", "scattered clouds", "broken clouds"} ->
            Styled(weather_text, "bright_blue")
      [] description \in {"overcast clouds", "mist", "haze", "smoke", "dust", "fog"} ->
            Styled(weather_text, "dimmed")
      [] description \in {"rain", "thunderstorm", "snow"} ->
            Styled(weather_text, "bright_cyan")
      [] OTHER -> Styled(weather_text, "normal")

\* The pieces of the format string of render_weather_info and its arguments.
formatted_details(weather_info) ==
    << "Weather Update for ", weather_info.name, ": ",
       weather_info.weather[1].description, " ",
       emoji_for_temperature(weather_info.main.temp),
       "\n> Temperature: ", format_1(weather_info.main.temp), "C",
       "\n> Humidity: ", format_1(weather_info.main.humidity), "%",
       "\n> Pressure: ", format_1(weather_info.main.pressure), " hPa",
       "\n> Wind Speed: ", format_1(weather_info.wind.speed), " m/s" >>

(***************************************************************************)
(* The program.                                                            *)
(***************************************************************************)
NoText == <<>>

Count(ev) == Cardinality({i \in 1..Len(io) : io[i] = ev})

Init ==
    /\ pc = "start"
    /\ io = <<>>
    /\ stdin = "open"
    /\ city = NoText
    /\ city_line = NoText
    /\ country = NoText
    /\ country_line = NoText
    /\ api_endpoint = NoText
    /\ api_response = None
    /\ weather_result = None
    /\ colored_output = None
    /\ user_choice = NoText

\* A failed .expect(..): the thread panics and the process ends.
Panic(events) ==
    /\ pc' = "panicked"
    /\ io' = io \o events \o <<"err:panic">>

\* execute_app, line 131: the banner, then the loop is entered.
Welcome ==
    /\ pc = "start"
    /\ pc' = "read_city"
    /\ io' = Append(io, "out:welcome")
    /\ UNCHANGED <<stdin, city, city_line, country, country_line, api_endpoint,
                   api_response, weather_result, colored_output, user_choice>>

\* execute_app line 134 and acquire_user_input, lines 116-119.  A new iteration
\* starts: the answer of the previous one is out of scope.
AcquireCity ==
    /\ pc = "read_city"
    /\ Count("out:prompt_city") < MaxIter
    /\ \E r \in read_line(CityTexts) :
          IF r.res = "Err"
          THEN /\ Panic(<<"out:prompt_city">>)
               /\ UNCHANGED <<stdin, city, city_line>>
          ELSE /\ pc' = "read_country"
               /\ io' = io \o <<"out:prompt_city", "in:city">>
               /\ stdin' = r.stdin
               /\ city_line' = r.buf
               /\ city' = trim(r.buf)
    /\ user_choice' = NoText
    /\ UNCHANGED <<country, country_line, api_endpoint, api_response, weather_result,
                   colored_output>>

\* acquire_user_input, lines 121-126.
AcquireCountry ==
    /\ pc = "read_country"
    /\ \E r \in read_line(CountryTexts) :
          IF r.res = "Err"
          THEN /\ Panic(<<"out:prompt_country">>)
               /\ UNCHANGED <<stdin, country, country_line>>
          ELSE /\ pc' = "obtain_weather"
               /\ io' = io \o <<"out:prompt_country", "in:country">>
               /\ stdin' = r.stdin
               /\ country_line' = r.buf
               /\ country' = trim(r.buf)
    /\ UNCHANGED <<city, city_line, api_endpoint, api_response, weather_result,
                   colored_output, user_choice>>

\* Variant: the request is built from the lines as read, not trimmed.
SendRequest_untrimmed ==
    /\ pc = "obtain_weather"
    /\ pc' = "await_response"
    /\ api_endpoint' = format_api_endpoint(city_line, country_line)
    /\ io' = Append(io, "net:get")
    /\ UNCHANGED <<stdin, city, city_line, country, country_line, api_response,
                   weather_result, colored_output, user_choice>>

\* obtain_weather, lines 50-55: the URL is built and the GET goes out.
SendRequest ==
    /\ pc = "obtain_weather"
    /\ pc' = "await_response"
    /\ api_endpoint' = format_api_endpoint(city, country)
    /\ io' = Append(io, "net:get")
    /\ UNCHANGED <<stdin, city, city_line, country, country_line, api_response,
                   weather_result, colored_output, user_choice>>

\* obtain_weather, lines 55-57: the call returns and the body is decoded.  The
\* query and the URL are not used after this point and are forgotten.
ReceiveResponse ==
    /\ pc = "await_response"
    /\ pc' = "match"
    /\ \E resp \in Responses :
          /\ api_response' = resp
          /\ weather_result' = obtain_weather_result(resp)
    /\ city' = NoText
    /\ city_line' = NoText
    /\ country' = NoText
    /\ country_line' = NoText
    /\ api_endpoint' = NoText
    /\ UNCHANGED <<io, stdin, colored_output, user_choice>>

\* execute_app line 137 and render_weather_info, lines 61-85.  Indexing an
\* empty weather list panics.
RenderWeatherInfo ==
    /\ pc = "match"
    /\ weather_result.ok
    /\ LET weather_info == weather_result.data
       IN  IF Len(weather_info.weather) = 0
           THEN /\ Panic(<<>>)
                /\ UNCHANGED colored_output
           ELSE /\ pc' = "end_match"
                /\ colored_output' =
                      colorize_weather_output(weather_info.weather[1].description,
                                              formatted_details(weather_info))
                /\ io' = Append(io, "out:block")
    /\ UNCHANGED <<stdin, city, city_line, country, country_line, api_endpoint,
                   api_response, weather_result, user_choice>>

\* Variant: the error is printed and the loop is left.
ReportError_leaves_loop ==
    /\ pc = "match"
    /\ ~weather_result.ok
    /\ pc' = "done"
    /\ io' = Append(io, "err:error")
    /\ UNCHANGED <<stdin, city, city_line, country, country_line, api_endpoint,
                   api_response, weather_result, colored_output, user_choice>>

\* execute_app line 138.
ReportError ==
    /\ pc = "match"
    /\ ~weather_result.ok
    /\ pc' = "end_match"
    /\ io' = Append(io, "err:error")
    /\ UNCHANGED <<stdin, city, city_line, country, country_line, api_endpoint,
                   api_response, weather_result, colored_output, user_choice>>

\* execute_app line 139: the match ends; the response, the result and the block
\* go out of scope.
EndMatch ==
    /\ pc = "end_match"
    /\ pc' = "ask"
    /\ api_response' = None
    /\ weather_result' = None
    /\ colored_output' = None
    /\ UNCHANGED <<io, stdin, city, city_line, country, country_line, api_endpoint,
                   user_choice>>

\* execute_app, lines 141-143.
ReadUserChoice ==
    /\ pc = "ask"
    /\ \E r \in read_line(AnswerTexts) :
          IF r.res = "Err"
          THEN /\ Panic(<<"out:prompt_continue">>)
               /\ UNCHANGED <<stdin, user_choice>>
          ELSE /\ pc' = "check_choice"
               /\ io' = io \o <<"out:prompt_continue", "in:choice">>
               /\ stdin' = r.stdin
               /\ user_choice' = r.buf
    /\ UNCHANGED <<city, city_line, country, country_line, api_endpoint, api_response,
                   weather_result, colored_output>>

\* Variant: the answer is compared without to_lowercase.
choice_is_yes_case_sensitive(choice) == trim(choice) = Yes

choice_is_yes(choice) == to_lowercase(trim(choice)) = Yes

\* Variant: the farewell line is printed before the answer is looked at.
CheckUserChoice_farewell_first ==
    /\ pc = "check_choice"
    /\ io' = Append(io, "out:farewell")
    /\ pc' = IF choice_is_yes(user_choice) THEN "read_city" ELSE "done"
    /\ UNCHANGED <<stdin, city, city_line, country, country_line, api_endpoint,
                   api_response, weather_result, colored_output, user_choice>>

\* execute_app, lines 144-147.
CheckUserChoice ==
    /\ pc = "check_choice"
    /\ IF choice_is_yes(user_choice)
       THEN /\ pc' = "read_city"
            /\ io' = io
       ELSE /\ pc' = "done"
            /\ io' = Append(io, "out:farewell")
    /\ UNCHANGED <<stdin, city, city_line, country, country_line, api_endpoint,
                   api_response, weather_result, colored_output, user_choice>>

Next ==
    \/ Welcome
    \/ AcquireCity
    \/ AcquireCountry
    \/ SendRequest
    \/ ReceiveResponse
    \/ RenderWeatherInfo
    \/ ReportError
    \/ EndMatch
    \/ ReadUserChoice
    \/ CheckUserChoice

Spec == Init /\ [][Next]_vars

(***************************************************************************)
(* Vocabulary of the properties.                                           *)
(***************************************************************************)
LastIo == IF io = <<>> THEN "" ELSE io[Len(io)]

\* The last n operations performed are `events`.
EndsWith(events) ==
    /\ Len(io) >= Len(events)
    /\ SubSeq(io, Len(io) - Len(events) + 1, Len(io)) = events

\* The answer typed: the line without its line terminator.
AnswerOf(line) ==
    LET n == Len(line)
    IN  IF n >= 2 /\ line[n - 1] = "\r" /\ line[n] = "\n" THEN SubSeq(line, 1, n - 2)
        ELSE IF n >= 1 /\ line[n] = "\n" THEN SubSeq(line, 1, n - 1)
        ELSE line

EqualsYesIgnoringCase(text) == to_lowercase(text) = <<"y", "e", "s">>

Rendered == pc = "end_match" /\ weather_result.ok

Failed == pc = "end_match" /\ ~weather_result.ok

\* The tier of a temperature (hundredths of a degree), as the specification
\* states it.
TierSymbol(t) ==
    CASE t < 0 -> "snowflake"
      [] 0 <= t /\ t < 1000 -> "cloud"
      [] 1000 <= t /\ t < 2000 -> "sun_behind_cloud"
      [] 2000 <= t /\ t < 3000 -> "sun_behind_small_cloud"
      [] t >= 3000 -> "fire"

\* The style of a description, as the specification states it.
DocumentedStyle(d) ==
    CASE d = "clear sky" -> "bright_yellow"
      [] d = "few clouds" \/ d = "scattered clouds" \/ d = "broken clouds" -> "bright_blue"
      [] d = "overcast clouds" \/ d = "mist" \/ d = "haze" \/ d = "smoke"
            \/ d = "dust" \/ d = "fog" -> "dimmed"
      [] d = "rain" \/ d = "thunderstorm" \/ d = "snow" -> "bright_cyan"
      [] OTHER -> "normal"

DigitValue(c) == CHOOSE d \in 0..9 : DigitChars[d + 1] = c

RECURSIVE NumberOf(_)
NumberOf(digits) ==
    IF digits = <<>> THEN 0
    ELSE 10 * NumberOf(SubSeq(digits, 1, Len(digits) - 1)) + DigitValue(digits[Len(digits)])

IsDigits(s) == s # <<>> /\ \A i \in 1..Len(s) : \E d \in 1..10 : DigitChars[d] = s[i]

\* `s` is the value of h hundredths written with exactly one fractional digit
\* and rounded to the nearest tenth.
IsRoundedToOneDecimal(s, h) ==
    LET neg == s # <<>> /\ s[1] = "-"
        body == IF neg THEN Tail(s) ELSE s
        n == Len(body)
    IN  /\ neg <=> (h < 0)
        /\ n >= 3
        /\ body[n - 1] = "."
        /\ IsDigits(SubSeq(body, 1, n - 2))
        /\ IsDigits(<<body[n]>>)
        /\ (n > 3 => body[1] # "0")
        /\ LET tenths == 10 * NumberOf(SubSeq(body, 1, n - 2)) + DigitValue(body[n])
               d == 10 * tenths - Magnitude(h)
           IN  -5 <= d /\ d <= 5

(***************************************************************************)
(* C1.  As stated: after the continuation prompt the loop goes back to the *)
(* city prompt exactly when the answer equals "yes" ignoring case, and     *)
(* every other answer ends the loop, after which nothing more happens.     *)
(***************************************************************************)
C1_Original ==
    /\ (pc = "read_city" /\ LastIo = "in:choice")
          => EqualsYesIgnoringCase(AnswerOf(user_choice))
    /\ pc = "done" => ~EqualsYesIgnoringCase(AnswerOf(user_choice))

(***************************************************************************)
(* C1, amended.  The loop goes back to the city prompt exactly when the    *)
(* answer, with leading and trailing whitespace removed, equals "yes"      *)
(* ignoring case; every other answer ends the loop, after which no prompt, *)
(* read or fetch occurs.                                                   *)
(***************************************************************************)
C1_ContinueIffTrimmedYes ==
    /\ pc = "check_choice" => ENABLED CheckUserChoice
    /\ (pc = "read_city" /\ LastIo = "in:choice")
          => EqualsYesIgnoringCase(trim(user_choice))
    /\ pc = "done" =>
          /\ ~EqualsYesIgnoringCase(trim(user_choice))
          /\ EndsWith(<<"in:choice", "out:farewell">>)
          /\ ~ENABLED Next
    /\ LastIo = "out:farewell" => pc = "done"

C1_Witness ==
    /\ pc = "read_city"
    /\ user_choice = <<" ", "Y", "e", "S", " ", "\n">>
    /\ Count("out:prompt_city") = 1

(***************************************************************************)
(* C2.  An Err from obtain_weather, of any kind, gives exactly one line on *)
(* the error stream and no weather block; the process goes on and the next *)
(* thing it does is the continuation prompt.                               *)
(***************************************************************************)
C2_ErrorIsReportedAndLoopGoesOn ==
    /\ (pc = "match" /\ ~weather_result.ok) =>
          ENABLED ReportError /\ ~ENABLED RenderWeatherInfo
    /\ Failed =>
          /\ EndsWith(<<"net:get", "err:error">>)
          /\ colored_output = None
          /\ ENABLED EndMatch
    /\ LastIo = "err:error" => pc \in {"end_match", "ask"}
    /\ (pc = "ask" /\ stdin = "open") => ENABLED ReadUserChoice
    /\ \A i \in 1..Len(io) :
          io[i] = "err:error" =>
              /\ i > 1 /\ io[i - 1] = "net:get"
              /\ i < Len(io) => io[i + 1] = "out:prompt_continue"

C2_Witness ==
    /\ Failed
    /\ weather_result.err = "decode"
    /\ api_response.status = 404
    /\ Count("err:error") = 2

(***************************************************************************)
(* C3.  A response whose status is not a success status is an Err of       *)
(* obtain_weather, whatever its body, and no weather block is rendered.    *)
(***************************************************************************)
C3_NonSuccessStatusIsErr ==
    (/\ pc \in {"match", "end_match"}
     /\ api_response.kind = "response"
     /\ api_response.status \notin 200..299)
        => ~weather_result.ok /\ colored_output = None

(***************************************************************************)
(* C4.  A decoded response with an empty weather list never makes the      *)
(* process abort: the first element of the empty list is not accessed.     *)
(***************************************************************************)
C4_EmptyWeatherListIsHandled ==
    (/\ weather_result # None
     /\ weather_result.ok
     /\ Len(weather_result.data.weather) = 0)
        => pc # "panicked"

(***************************************************************************)
(* C5.  The symbol printed for a temperature t is one of the five symbols, *)
(* the one of the tier of t: t < 0 freezing, 0 <= t < 10 cold,             *)
(* 10 <= t < 20 mild, 20 <= t < 30 warm, t >= 30 hot.                      *)
(***************************************************************************)
C5_SymbolIsTierOfTemperature ==
    Rendered =>
        /\ colored_output.text[6] = TierSymbol(weather_result.data.main.temp)
        /\ colored_output.text[6] \in
              {"snowflake", "cloud", "sun_behind_cloud", "sun_behind_small_cloud", "fire"}

C5_Witness ==
    /\ Rendered
    /\ weather_result.data.main.temp = 3000
    /\ colored_output.text[6] = "fire"

(***************************************************************************)
(* C6.  The style of the block is the documented style of the description, *)
(* matched exactly and with case; any other description gives the unstyled *)
(* block; the text is the formatted text, unaltered.                       *)
(***************************************************************************)
C6_StyleIsExactMatchOfDescription ==
    Rendered =>
        /\ colored_output.style =
              DocumentedStyle(weather_result.data.weather[1].description)
        /\ weather_result.data.weather[1].description \notin KnownDescriptions
              => colored_output.style = "normal"
        /\ colored_output.text = formatted_details(weather_result.data)

C6_Witness ==
    /\ Rendered
    /\ weather_result.data.weather[1].description = "Clear Sky"
    /\ colored_output.style = "normal"

(***************************************************************************)
(* C7.  A read that finds the input closed (it returns no byte at all) is  *)
(* fatal: the program never goes on with the empty text of such a read.    *)
(***************************************************************************)
C7_ClosedInputIsFatal ==
    /\ pc = "read_country" => city_line # <<>>
    /\ pc = "obtain_weather" => country_line # <<>>
    /\ pc \in {"check_choice", "done"} => user_choice # <<>>

(***************************************************************************)
(* C8.  For a decoded response with a non-empty weather list one block is  *)
(* printed, holding the location name and the first description verbatim,  *)
(* the symbol of the temperature, and temperature, humidity, pressure and  *)
(* wind speed each rounded to exactly one decimal place.                   *)
(***************************************************************************)
C8_BlockHoldsRecordRoundedToOneDecimal ==
    /\ (pc = "match" /\ weather_result.ok /\ Len(weather_result.data.weather) > 0)
          => ENABLED RenderWeatherInfo
    /\ Rendered =>
          LET w == weather_result.data
              text == colored_output.text
          IN  /\ EndsWith(<<"net:get", "out:block">>)
              /\ Len(w.weather) > 0
              /\ text[2] = w.name
              /\ text[4] = w.weather[1].description
              /\ text[6] = TierSymbol(w.main.temp)
              /\ IsRoundedToOneDecimal(text[8], w.main.temp)
              /\ IsRoundedToOneDecimal(text[11], w.main.humidity)
              /\ IsRoundedToOneDecimal(text[14], w.main.pressure)
              /\ IsRoundedToOneDecimal(text[17], w.wind.speed)

C8_Witness ==
    /\ Rendered
    /\ weather_result.data.main.temp = 1504
    /\ colored_output.text[8] = <<"1", "5", ".", "0">>
    /\ weather_result.data.main.pressure = 99996
    /\ colored_output.text[14] = <<"1", "0", "0", "0", ".", "0">>

(***************************************************************************)
(* C9.  An iteration reads the city, reads the country code, issues one    *)
(* GET for the trimmed city and country code whatever they are, prints the *)
(* block or the error line, then asks whether to continue; a failed GET is *)
(* not retried, and there is one GET per completed pair of reads.          *)
(***************************************************************************)
FollowsInOrder(a, b) ==
    CASE a = "out:welcome" -> b = "out:prompt_city"
      [] a = "out:prompt_city" -> b \in {"in:city", "err:panic"}
      [] a = "in:city" -> b = "out:prompt_country"
      [] a = "out:prompt_country" -> b \in {"in:country", "err:panic"}
      [] a = "in:country" -> b = "net:get"
      [] a = "net:get" -> b \in {"out:block", "err:error", "err:panic"}
      [] a = "out:block" -> b = "out:prompt_continue"
      [] a = "err:error" -> b = "out:prompt_continue"
      [] a = "out:prompt_continue" -> b \in {"in:choice", "err:panic"}
      [] a = "in:choice" -> b \in {"out:prompt_city", "out:farewell"}
      [] OTHER -> FALSE

C10_BannerOnceFarewellLast ==
    /\ pc = "start" => io = <<>>
    /\ pc # "start" => io[1] = "out:welcome" /\ Count("out:welcome") = 1
    /\ Count("out:farewell") <= 1
    /\ \A i \in 1..Len(io) :
          io[i] = "out:farewell" =>
              /\ i = Len(io)
              /\ i > 1 /\ io[i - 1] = "in:choice"
              /\ pc = "done"
              /\ ~EqualsYesIgnoringCase(trim(user_choice))
    /\ pc = "done" => LastIo = "out:farewell"

C10_Witness ==
    /\ pc = "done"
    /\ Count("out:prompt_city") = 2
    /\ Count("out:farewell") = 1

====
